---- MODULE Spec2Model ----
(***************************************************************************)
(* The Anthropic adapter of chatlas (src/chatlas/_anthropic.py): request   *)
(* construction, the streaming merge of vendor events into a completion,   *)
(* and the canonicalization of a completion into a Turn.                   *)
(***************************************************************************)
EXTENDS Integers, Sequences, FiniteSets, TLC

(***************************************************************************)
(* Python values.  A dynamically typed value (a tool's input, a Json item) *)
(* is a tagged tuple: <<"none">>, <<"int", n>>, <<"str", s>>, <<"dict", f>>*)
(* where s is a sequence of characters and f a function from keys to      *)
(* values.  A field that is always a str (text, partial_json) is the bare  *)
(* sequence of its characters; identifiers and names are atoms.            *)
(***************************************************************************)
PyNone == <<"none">>

PyInt(n) == <<"int", n>>

PyStr(s) == <<"str", s>>

PyDict(f) == <<"dict", f>>

EmptyDict == PyDict(<<>>)

\* isinstance(v, str)
IsStr(v) == v[1] = "str"

\* isinstance(v, dict)
IsDict(v) == v[1] = "dict"

\* key in v, for a dict v
HasKey(v, k) == k \in DOMAIN v[2]

\* The characters JSON text is made of here: punctuation, a blank, the
\* literals null and 1, and two string literals.
QData == "\"data\""

QX == "\"x\""

JsonChars == {"{", "}", ":", ",", " ", "null", "1", QData, QX}

StringLiterals == {QData, QX}

\* The str a string literal denotes.
Unquote(lit) == IF lit = QData THEN "data" ELSE "x"

\* The string literal that denotes a key.
Quote(k) == IF k = "data" THEN QData ELSE QX

\* Position of the first non-blank character at or after i.
RECURSIVE SkipWs(_, _)
SkipWs(s, i) == IF i <= Len(s) /\ s[i] = " " THEN SkipWs(s, i + 1) ELSE i

ParseFail == [ok |-> FALSE, val |-> PyNone, next |-> 0]

\* json.loads' recursive descent: the value starting at position i of s and
\* the position after it.  An object's later duplicate key wins.
RECURSIVE ParseValue(_, _)
RECURSIVE ParseMembers(_, _, _)
ParseValue(s, i0) ==
    LET i == SkipWs(s, i0) IN
    IF i > Len(s) THEN ParseFail
    ELSE IF s[i] = "null" THEN [ok |-> TRUE, val |-> PyNone, next |-> i + 1]
    ELSE IF s[i] = "1" THEN [ok |-> TRUE, val |-> PyInt(1), next |-> i + 1]
    ELSE IF s[i] \in StringLiterals
         THEN [ok |-> TRUE, val |-> PyStr(<<Unquote(s[i])>>), next |-> i + 1]
    ELSE IF s[i] = "{"
         THEN LET j == SkipWs(s, i + 1) IN
              IF j <= Len(s) /\ s[j] = "}"
              THEN [ok |-> TRUE, val |-> EmptyDict, next |-> j + 1]
              ELSE ParseMembers(s, j, <<>>)
    ELSE ParseFail

\* The members of an object from position i on, f holding those read so far.
ParseMembers(s, i0, f) ==
    LET i == SkipWs(s, i0) IN
    IF i > Len(s) \/ s[i] \notin StringLiterals THEN ParseFail
    ELSE LET c == SkipWs(s, i + 1) IN
         IF c > Len(s) \/ s[c] # ":" THEN ParseFail
         ELSE LET r == ParseValue(s, c + 1) IN
              IF ~r.ok THEN ParseFail
              ELSE LET g == (Unquote(s[i]) :> r.val) @@ f
                       e == SkipWs(s, r.next)
                   IN  IF e > Len(s) THEN ParseFail
                       ELSE IF s[e] = "}"
                            THEN [ok |-> TRUE, val |-> PyDict(g), next |-> e + 1]
                       ELSE IF s[e] = ","
                            THEN ParseMembers(s, e + 1, g)
                       ELSE ParseFail

\* json.loads(s): one value, blanks around it, nothing after it; a
\* JSONDecodeError otherwise.
json_loads(s) ==
    LET r == ParseValue(s, 1) IN
    IF r.ok /\ SkipWs(s, r.next) > Len(s)
    THEN [ok |-> TRUE, val |-> r.val]
    ELSE [ok |-> FALSE, val |-> PyNone]

(***************************************************************************)
(* Vendor shapes.  A completion (Message) holds its content blocks, its    *)
(* stop fields and its usage; a block is a text block, a tool_use block or *)
(* a block of a type the adapter does not know.                            *)
(***************************************************************************)
NoCompletion == [type |-> "NoneType"]

TextBlock(text) == [type |-> "text", text |-> text]

ToolUseBlock(id, name, input) ==
    [type |-> "tool_use", id |-> id, name |-> name, input |-> input]

OtherBlock == [type |-> "other"]

Message(content, stop_reason, stop_sequence, input_tokens, output_tokens) ==
    [type |-> "message", role |-> "assistant", content |-> content,
     stop_reason |-> stop_reason, stop_sequence |-> stop_sequence,
     usage |-> [input_tokens |-> input_tokens, output_tokens |-> output_tokens]]

\* The name of the function the extraction pseudo-tool is made from.
StructuredToolName == "_structured_tool_call"

\* Outcome of a call: its value, or the exception it raised.
Return(v) == [ok |-> TRUE, val |-> v, err |-> "none"]

Raise(e) == [ok |-> FALSE, val |-> NoCompletion, err |-> e]

\* Outcome of a merge step that raised: the exception, and the accumulator
\* object as the step left it (the step works on the object in place).
Raised(e, left) == [ok |-> FALSE, val |-> left, err |-> e]

(***************************************************************************)
(* Stream events (RawMessageStreamEvent).  Indices are the vendor's, from  *)
(* zero.                                                                   *)
(***************************************************************************)
MessageStartEvent(message) == [type |-> "message_start", message |-> message]

ContentBlockStartEvent(index, block) ==
    [type |-> "content_block_start", index |-> index, content_block |-> block]

TextDeltaEvent(index, text) ==
    [type |-> "content_block_delta", index |-> index,
     delta |-> [type |-> "text_delta", text |-> text]]

InputJsonDeltaEvent(index, partial_json) ==
    [type |-> "content_block_delta", index |-> index,
     delta |-> [type |-> "input_json_delta", partial_json |-> partial_json]]

ContentBlockStopEvent(index) == [type |-> "content_block_stop", index |-> index]

MessageDeltaEvent(stop_reason, stop_sequence, output_tokens) ==
    [type |-> "message_delta",
     delta |-> [stop_reason |-> stop_reason, stop_sequence |-> stop_sequence],
     usage |-> [output_tokens |-> output_tokens]]

MessageStopEvent == [type |-> "message_stop"]

PingEvent == [type |-> "ping"]

\* stream_text: the text of a text delta, None for every other event.
NoText == <<"none">>

\* A stream_text that hands out the payload of every content_block_delta.
stream_text_any_delta(chunk) ==
    IF chunk.type = "content_block_delta"
    THEN IF chunk.delta.type = "text_delta"
         THEN PyStr(chunk.delta.text)
         ELSE PyStr(chunk.delta.partial_json)
    ELSE NoText

stream_text(chunk) ==
    IF chunk.type = "content_block_delta" /\ chunk.delta.type = "text_delta"
    THEN PyStr(chunk.delta.text)
    ELSE NoText

\* completion.content[chunk.index] exists
InRange(completion, index) == index + 1 \in DOMAIN completion.content

\* A content_block_delta that swaps the skeleton input for the empty string
\* and loses the delta that made it do so.
MergeDeltaDropsFirst(completion, chunk) ==
    LET this_content == completion.content[chunk.index + 1] IN
    IF chunk.delta.type = "text_delta"
    THEN IF this_content.type # "text"
         THEN Raised("AttributeError", completion)
         ELSE Return([completion EXCEPT !.content[chunk.index + 1].text =
                          this_content.text \o chunk.delta.text])
    ELSE IF chunk.delta.type = "input_json_delta"
    THEN IF this_content.type # "tool_use"
         THEN Raised("AttributeError", completion)
         ELSE Return([completion EXCEPT !.content[chunk.index + 1].input =
                          IF IsStr(this_content.input)
                          THEN PyStr(this_content.input[2]
                                     \o chunk.delta.partial_json)
                          ELSE PyStr(<<>>)])
    ELSE Return(completion)

\* content_block_delta: the block at the event's index with the delta appended.
MergeDelta(completion, chunk) ==
    LET this_content == completion.content[chunk.index + 1] IN
    IF chunk.delta.type = "text_delta"
    THEN IF this_content.type # "text"
         THEN Raised("AttributeError", completion)
         ELSE Return([completion EXCEPT !.content[chunk.index + 1].text =
                          this_content.text \o chunk.delta.text])
    ELSE IF chunk.delta.type = "input_json_delta"
    THEN IF this_content.type # "tool_use"
         THEN Raised("AttributeError", completion)
         ELSE LET input == IF IsStr(this_content.input)
                           THEN this_content.input[2] ELSE <<>>
              IN  Return([completion EXCEPT !.content[chunk.index + 1].input =
                              PyStr(input \o chunk.delta.partial_json)])
    ELSE Return(completion)

\* A content_block_stop that leaves the raw input unparsed.
MergeStopNoParse(completion, chunk) == Return(completion)

\* A content_block_stop that clears the raw input before it parses it.
MergeStopClearsFirst(completion, chunk) ==
    LET this_content == completion.content[chunk.index + 1] IN
    IF this_content.type = "tool_use" /\ IsStr(this_content.input)
    THEN LET raw == this_content.input[2]
             parsed == json_loads(IF raw = <<>> THEN <<"{", "}">> ELSE raw)
         IN  IF parsed.ok
             THEN Return([completion EXCEPT !.content[chunk.index + 1].input =
                              parsed.val])
             ELSE Raised("ValueError",
                         [completion EXCEPT !.content[chunk.index + 1].input =
                              EmptyDict])
    ELSE Return(completion)

\* content_block_stop: a tool_use block's raw input is parsed, the empty
\* string as "{}".
MergeStop(completion, chunk) ==
    LET this_content == completion.content[chunk.index + 1] IN
    IF this_content.type = "tool_use" /\ IsStr(this_content.input)
    THEN LET raw == this_content.input[2]
             parsed == json_loads(IF raw = <<>> THEN <<"{", "}">> ELSE raw)
         IN  IF parsed.ok
             THEN Return([completion EXCEPT !.content[chunk.index + 1].input =
                              parsed.val])
             ELSE Raised("ValueError", completion)
    ELSE Return(completion)

\* A message_delta that adds the event's output tokens to the count held.
MergeMessageDeltaAddsTokens(completion, chunk) ==
    Return([completion EXCEPT !.stop_reason = chunk.delta.stop_reason,
                              !.stop_sequence = chunk.delta.stop_sequence,
                              !.usage.output_tokens =
                                  @ + chunk.usage.output_tokens])

\* message_delta: the stop fields and the output token count are overwritten.
MergeMessageDelta(completion, chunk) ==
    Return([completion EXCEPT !.stop_reason = chunk.delta.stop_reason,
                              !.stop_sequence = chunk.delta.stop_sequence,
                              !.usage.output_tokens = chunk.usage.output_tokens])

\* A stream_merge_chunks that returns nothing for an event it has no branch
\* for.
stream_merge_chunks_falls_off(completion, chunk) ==
    IF chunk.type = "message_start" THEN Return(chunk.message)
    ELSE IF chunk.type = "content_block_start"
    THEN IF completion = NoCompletion THEN Raised("AttributeError", completion)
         ELSE Return([completion EXCEPT !.content =
                          Append(completion.content, chunk.content_block)])
    ELSE IF chunk.type = "content_block_delta"
    THEN IF completion = NoCompletion THEN Raised("AttributeError", completion)
         ELSE IF ~InRange(completion, chunk.index)
         THEN Raised("IndexError", completion)
         ELSE MergeDelta(completion, chunk)
    ELSE IF chunk.type = "content_block_stop"
    THEN IF completion = NoCompletion THEN Raised("AttributeError", completion)
         ELSE IF ~InRange(completion, chunk.index)
         THEN Raised("IndexError", completion)
         ELSE MergeStop(completion, chunk)
    ELSE IF chunk.type = "message_delta"
    THEN IF completion = NoCompletion THEN Raised("AttributeError", completion)
         ELSE MergeMessageDelta(completion, chunk)
    ELSE Return(NoCompletion)

\* stream_merge_chunks(completion, chunk)
stream_merge_chunks(completion, chunk) ==
    IF chunk.type = "message_start" THEN Return(chunk.message)
    ELSE IF chunk.type = "content_block_start"
    THEN IF completion = NoCompletion THEN Raised("AttributeError", completion)
         ELSE Return([completion EXCEPT !.content =
                          Append(completion.content, chunk.content_block)])
    ELSE IF chunk.type = "content_block_delta"
    THEN IF completion = NoCompletion THEN Raised("AttributeError", completion)
         ELSE IF ~InRange(completion, chunk.index)
         THEN Raised("IndexError", completion)
         ELSE MergeDelta(completion, chunk)
    ELSE IF chunk.type = "content_block_stop"
    THEN IF completion = NoCompletion THEN Raised("AttributeError", completion)
         ELSE IF ~InRange(completion, chunk.index)
         THEN Raised("IndexError", completion)
         ELSE MergeStop(completion, chunk)
    ELSE IF chunk.type = "message_delta"
    THEN IF completion = NoCompletion THEN Raised("AttributeError", completion)
         ELSE MergeMessageDelta(completion, chunk)
    ELSE Return(completion)

(***************************************************************************)
(* Canonical content and turns.                                            *)
(***************************************************************************)
ContentText(text) == [kind |-> "ContentText", text |-> text]

ContentJson(value) == [kind |-> "ContentJson", value |-> value]

ContentImageInline(content_type, data) ==
    [kind |-> "ContentImageInline", content_type |-> content_type, data |-> data]

ContentImageRemote(url) == [kind |-> "ContentImageRemote", url |-> url]

ContentToolRequest(id, name, arguments) ==
    [kind |-> "ContentToolRequest", id |-> id, name |-> name,
     arguments |-> arguments]

ContentToolResult(id, value, error) ==
    [kind |-> "ContentToolResult", id |-> id, value |-> value, error |-> error]

Turn(role, contents, json, tokens) ==
    [role |-> role, contents |-> contents, json |-> json, tokens |-> tokens]

NoTurn == [role |-> "none"]

\* A canonicalization that hands out the extraction tool's whole input
\* instead of the value under its data key.
AsContentNoUnwrap(content, has_data_model) ==
    IF content.type = "text"
    THEN Return(<<ContentText(content.text)>>)
    ELSE IF content.type = "tool_use"
    THEN IF has_data_model /\ content.name = StructuredToolName
         THEN Return(<<ContentJson(content.input)>>)
         ELSE Return(<<ContentToolRequest(content.id, content.name,
                                          content.input)>>)
    ELSE Return(<<>>)

\* One content block's step of _as_turn's loop: the item appended, nothing
\* for a block of another type, or the error raised.
AsContent(content, has_data_model) ==
    IF content.type = "text"
    THEN Return(<<ContentText(content.text)>>)
    ELSE IF content.type = "tool_use"
    THEN IF has_data_model /\ content.name = StructuredToolName
         THEN IF ~IsDict(content.input) THEN Raise("ValueError")
              ELSE IF ~HasKey(content.input, "data") THEN Raise("ValueError")
              ELSE Return(<<ContentJson(content.input[2]["data"])>>)
         ELSE Return(<<ContentToolRequest(content.id, content.name,
                                          content.input)>>)
    ELSE Return(<<>>)

\* _as_turn's loop over completion.content[i..], contents holding the items
\* built so far.
RECURSIVE AsContents(_, _, _, _)
AsContents(blocks, i, contents, has_data_model) ==
    IF i > Len(blocks) THEN Return(contents)
    ELSE LET r == AsContent(blocks[i], has_data_model) IN
         IF ~r.ok THEN r
         ELSE AsContents(blocks, i + 1, contents \o r.val, has_data_model)

\* An _as_turn that reads the token pair in the wrong order.
as_turn_tokens_swapped(completion, has_data_model) ==
    LET r == AsContents(completion.content, 1, <<>>, has_data_model)
        tokens == <<completion.usage.output_tokens,
                    completion.usage.input_tokens>>
    IN  IF ~r.ok THEN [ok |-> FALSE, val |-> NoTurn, err |-> r.err]
        ELSE [ok |-> TRUE, err |-> "none",
              val |-> Turn("assistant", r.val, completion, tokens)]

\* _as_turn(completion, has_data_model): the Turn, or the error raised
\* before any token pair is logged.
as_turn(completion, has_data_model) ==
    LET r == AsContents(completion.content, 1, <<>>, has_data_model)
        tokens == <<completion.usage.input_tokens,
                    completion.usage.output_tokens>>
    IN  IF ~r.ok THEN [ok |-> FALSE, val |-> NoTurn, err |-> r.err]
        ELSE [ok |-> TRUE, err |-> "none",
              val |-> Turn("assistant", r.val, completion, tokens)]

stream_turn(completion, has_data_model) == as_turn(completion, has_data_model)

value_turn(completion, has_data_model) == as_turn(completion, has_data_model)

(***************************************************************************)
(* The vendor's side of one streaming call.  The vendor decides the        *)
(* message it is going to deliver (ref, the completion the non-streaming   *)
(* path would have returned) and sends it as events in arrival order; a    *)
(* tool's input v goes out as the JSON text of v, cut into pieces.         *)
(***************************************************************************)
MaxBlocks == 2

MaxText == 2

TextChars == {"a", "b"}

ToolUseId == "toolu_1"

ToolNames == {StructuredToolName, "get_weather"}

JsonValues ==
    {EmptyDict,
     PyDict("data" :> PyDict("x" :> PyInt(1))),
     PyDict(("x" :> PyInt(1)) @@ ("data" :> PyNone)),
     PyStr(<<"x">>)}

StopReasons == {"end_turn", "stop_sequence"}

\* The vendor names the stop sequence it hit, and none when it stopped for
\* another reason.
StopSequenceFor(reason) == IF reason = "stop_sequence" THEN "END" ELSE "none"

InputTokenCounts == {3}

OutputTokenCounts == {5, 7}

\* The JSON text of a value, as the vendor writes it.
RECURSIVE Dumps(_)
RECURSIVE DumpMembers(_, _)
Dumps(v) ==
    IF v[1] = "none" THEN <<"null">>
    ELSE IF v[1] = "int" THEN <<"1">>
    ELSE IF v[1] = "str" THEN <<Quote(v[2][1])>>
    ELSE <<"{">> \o DumpMembers(v[2], DOMAIN v[2]) \o <<"}">>

DumpMembers(f, keys) ==
    IF keys = {} THEN <<>>
    ELSE LET k == CHOOSE x \in keys : TRUE
             rest == keys \ {k}
         IN  <<Quote(k), ":", " ">> \o Dumps(f[k])
             \o (IF rest = {} THEN <<>> ELSE <<",">> \o DumpMembers(f, rest))

\* The text the vendor sends for v: all of it, or all but its last character
\* when the vendor's stream is cut short.
WireText(v, cut) ==
    IF cut THEN SubSeq(Dumps(v), 1, Len(Dumps(v)) - 1) ELSE Dumps(v)

NoResult == [ok |-> FALSE, val |-> NoTurn, err |-> "not called"]

VARIABLES
    completion,      \* the accumulator of the streaming call, or NoCompletion
    ref,             \* the completion the vendor is delivering
    pending,         \* JSON text of the open tool_use block still to be sent
    wellFormed,      \* every tool input sent so far is the whole text of its value
    phase,           \* where the stream stands; "delta" after the first
                     \* message_delta, "redelta" after a further one
    mergeErr,        \* the error a merge step raised
    has_data_model,  \* whether the call asked for an output schema
    streamResult,    \* outcome of stream_turn on the accumulator
    valueResult,     \* outcome of value_turn on ref
    tokensLog        \* the token pairs handed to tokens_log, in order

VARIABLES
    lastText,        \* what stream_text returned for the latest event
    lastDelta,       \* the message_delta event most recently merged
    wire,            \* the whole JSON text the vendor sends for the open block
    streamed,        \* an input_json_delta was sent for the open block
    stoppedEarly,    \* a message_stop was merged that was not the last event
    shadow,          \* the accumulator of a fold that never sees the events
                     \* stream_merge_chunks has no branch for
    shown            \* the text stream_text handed out, in arrival order

histVars ==
    <<lastText, lastDelta, wire, streamed, stoppedEarly, shadow, shown>>

streamVars ==
    <<completion, ref, pending, wellFormed, phase, mergeErr, has_data_model,
      streamResult, valueResult, tokensLog, histVars>>

VARIABLES
    call,            \* the arguments of the chat_perform call
    pcReq,           \* "idle", "ready", "returned" or "raised"
    handed,          \* the requests handed to the vendor clients, in order
    warned,          \* the number of warnings the call emitted
    reqErr           \* the error the call raised

reqVars == <<call, pcReq, handed, warned, reqErr>>

VARIABLES
    contentsIn,      \* the canonical content items being mapped
    blocksOut        \* outcome of mapping them to vendor blocks

tripVars == <<contentsIn, blocksOut>>

VARIABLES
    ctorArgs,        \* the arguments of the constructor call
    instance,        \* the adapter the constructor call made, or NoInstance
    ctorErr          \* the error the constructor call raised

ifaceVars == <<ctorArgs, instance, ctorErr>>

VARIABLES
    events,          \* per streaming call, the events its stream delivers
    wantsData,       \* per streaming call, whether it asked for an output schema
    pos,             \* per streaming call, the number of its events merged
    acc,             \* per streaming call, its accumulator
    callErr,         \* per streaming call, the error its merge step raised
    callTurn,        \* per streaming call, the outcome of stream_turn
    adapter          \* the configuration of the adapter the calls share

callsVars == <<events, wantsData, pos, acc, callErr, callTurn, adapter>>

NoCall == [stream |-> FALSE]

\* No chat_perform call is in progress.
IdleReq ==
    /\ call = NoCall
    /\ pcReq = "idle"
    /\ handed = <<>>
    /\ warned = 0
    /\ reqErr = "none"

\* No content list is being mapped.
IdleTrip ==
    /\ contentsIn = <<>>
    /\ blocksOut = [ok |-> FALSE, val |-> NoCompletion, err |-> "not called"]

NoChunk == [type |-> "none"]

\* No event was merged.
IdleHist ==
    /\ lastText = NoText
    /\ lastDelta = NoChunk
    /\ wire = <<>>
    /\ streamed = FALSE
    /\ stoppedEarly = FALSE
    /\ shadow = NoCompletion
    /\ shown = <<>>

NoInstance == [class |-> "none"]

\* No constructor call was made.
IdleIface ==
    /\ ctorArgs = <<>>
    /\ instance = NoInstance
    /\ ctorErr = "not called"

\* No streaming calls share an adapter.
IdleCalls ==
    /\ events = <<>>
    /\ wantsData = <<>>
    /\ pos = <<>>
    /\ acc = <<>>
    /\ callErr = <<>>
    /\ callTurn = <<>>
    /\ adapter = NoInstance

IdleRest == IdleIface /\ IdleCalls

IdleStream ==
    /\ IdleHist
    /\ completion = NoCompletion
    /\ ref = NoCompletion
    /\ pending = <<>>
    /\ wellFormed = TRUE
    /\ phase = "idle"
    /\ mergeErr = "none"
    /\ has_data_model = FALSE
    /\ streamResult = NoResult
    /\ valueResult = NoResult
    /\ tokensLog = <<>>

InitStream == IdleStream /\ IdleReq /\ IdleTrip /\ IdleRest

\* The event types stream_merge_chunks has a branch for.
FoldedTypes ==
    {"message_start", "content_block_start", "content_block_delta",
     "content_block_stop", "message_delta"}

\* One turn of the caller's loop over the stream: the event's text is handed
\* out and the event is folded into the accumulator; an error ends the call
\* with the accumulator as the failing step left it.
Merge(chunk, nextPhase) ==
    LET r == stream_merge_chunks(completion, chunk)
        text == stream_text(chunk)
    IN  /\ completion' = r.val
        /\ phase' = IF r.ok THEN nextPhase ELSE "failed"
        /\ mergeErr' = IF r.ok THEN mergeErr ELSE r.err
        /\ lastText' = text
        /\ lastDelta' = IF chunk.type = "message_delta" THEN chunk ELSE lastDelta
        /\ shown' = IF text = NoText THEN shown ELSE shown \o text[2]
        /\ shadow' = IF chunk.type \in FoldedTypes
                     THEN stream_merge_chunks(shadow, chunk).val
                     ELSE shadow

\* Index of the block being streamed.
OpenIndex == Len(ref.content) - 1

OpenBlock == ref.content[Len(ref.content)]

MessageStart ==
    /\ phase = "idle"
    /\ \E n \in InputTokenCounts :
          LET message == Message(<<>>, "none", "none", n, 1) IN
          /\ Merge(MessageStartEvent(message), "open")
          /\ ref' = message
    /\ UNCHANGED <<pending, wellFormed, has_data_model, streamResult,
                   valueResult, tokensLog, wire, streamed, stoppedEarly>>
    /\ UNCHANGED <<reqVars, tripVars, ifaceVars, callsVars>>

TextBlockStart ==
    /\ phase = "open"
    /\ Len(ref.content) < MaxBlocks
    /\ Merge(ContentBlockStartEvent(Len(ref.content), TextBlock(<<>>)), "block")
    /\ ref' = [ref EXCEPT !.content = Append(@, TextBlock(<<>>))]
    /\ wire' = <<>>
    /\ streamed' = FALSE
    /\ UNCHANGED <<pending, wellFormed, has_data_model, streamResult,
                   valueResult, tokensLog, stoppedEarly>>
    /\ UNCHANGED <<reqVars, tripVars, ifaceVars, callsVars>>

ToolUseBlockStart ==
    /\ phase = "open"
    /\ Len(ref.content) < MaxBlocks
    /\ \E name \in ToolNames, v \in JsonValues, cut \in BOOLEAN, silent \in BOOLEAN :
          /\ silent => (v = EmptyDict /\ ~cut)
          /\ Merge(ContentBlockStartEvent(Len(ref.content),
                       ToolUseBlock(ToolUseId, name, EmptyDict)), "block")
          /\ ref' = [ref EXCEPT !.content =
                         Append(@, ToolUseBlock(ToolUseId, name, v))]
          /\ pending' = IF silent THEN <<>> ELSE WireText(v, cut)
          /\ wire' = pending'
          /\ wellFormed' = (wellFormed /\ ~cut)
    /\ streamed' = FALSE
    /\ UNCHANGED <<has_data_model, streamResult, valueResult, tokensLog,
                   stoppedEarly>>
    /\ UNCHANGED <<reqVars, tripVars, ifaceVars, callsVars>>

TextDelta ==
    /\ phase = "block"
    /\ OpenBlock.type = "text"
    /\ Len(OpenBlock.text) < MaxText
    /\ \E c \in TextChars :
          /\ Merge(TextDeltaEvent(OpenIndex, <<c>>), "block")
          /\ ref' = [ref EXCEPT !.content[Len(ref.content)].text = @ \o <<c>>]
    /\ UNCHANGED <<pending, wellFormed, has_data_model, streamResult,
                   valueResult, tokensLog, wire, streamed, stoppedEarly>>
    /\ UNCHANGED <<reqVars, tripVars, ifaceVars, callsVars>>

InputJsonDelta ==
    /\ phase = "block"
    /\ OpenBlock.type = "tool_use"
    /\ \E k \in 0..Len(pending) :
          /\ Merge(InputJsonDeltaEvent(OpenIndex, SubSeq(pending, 1, k)), "block")
          /\ pending' = SubSeq(pending, k + 1, Len(pending))
    /\ streamed' = TRUE
    /\ UNCHANGED <<ref, wellFormed, has_data_model, streamResult, valueResult,
                   tokensLog, wire, stoppedEarly>>
    /\ UNCHANGED <<reqVars, tripVars, ifaceVars, callsVars>>

ContentBlockStop ==
    /\ phase = "block"
    /\ pending = <<>>
    /\ Merge(ContentBlockStopEvent(OpenIndex), "open")
    /\ UNCHANGED <<ref, pending, wellFormed, has_data_model, streamResult,
                   valueResult, tokensLog, wire, streamed, stoppedEarly>>
    /\ UNCHANGED <<reqVars, tripVars, ifaceVars, callsVars>>

MessageDelta ==
    /\ phase = "open"
    /\ \E reason \in StopReasons, n \in OutputTokenCounts :
          /\ Merge(MessageDeltaEvent(reason, StopSequenceFor(reason), n), "delta")
          /\ ref' = [ref EXCEPT !.stop_reason = reason,
                                !.stop_sequence = StopSequenceFor(reason),
                                !.usage.output_tokens = n]
    /\ UNCHANGED <<pending, wellFormed, has_data_model, streamResult,
                   valueResult, tokensLog, wire, streamed, stoppedEarly>>
    /\ UNCHANGED <<reqVars, tripVars, ifaceVars, callsVars>>

\* A further message_delta: the closing fields it carries replace those of
\* the one before.
MessageDeltaAgain ==
    /\ phase = "delta"
    /\ \E reason \in StopReasons, n \in OutputTokenCounts :
          /\ Merge(MessageDeltaEvent(reason, StopSequenceFor(reason), n),
                   "redelta")
          /\ ref' = [ref EXCEPT !.stop_reason = reason,
                                !.stop_sequence = StopSequenceFor(reason),
                                !.usage.output_tokens = n]
    /\ UNCHANGED <<pending, wellFormed, has_data_model, streamResult,
                   valueResult, tokensLog, wire, streamed, stoppedEarly>>
    /\ UNCHANGED <<reqVars, tripVars, ifaceVars, callsVars>>

Ping ==
    /\ phase \in {"open", "block", "delta", "redelta"}
    /\ Merge(PingEvent, phase)
    /\ UNCHANGED <<ref, pending, wellFormed, has_data_model, streamResult,
                   valueResult, tokensLog, wire, streamed, stoppedEarly>>
    /\ UNCHANGED <<reqVars, tripVars, ifaceVars, callsVars>>

\* A message_stop that is not the last event: the caller has more to supply.
MessageStopEarly ==
    /\ phase \in {"open", "block", "delta"}
    /\ Merge(MessageStopEvent, phase)
    /\ stoppedEarly' = TRUE
    /\ UNCHANGED <<ref, pending, wellFormed, has_data_model, streamResult,
                   valueResult, tokensLog, wire, streamed>>
    /\ UNCHANGED <<reqVars, tripVars, ifaceVars, callsVars>>

\* The last event; the stream is exhausted after it.
MessageStop ==
    /\ phase \in {"delta", "redelta"}
    /\ Merge(MessageStopEvent, "exhausted")
    /\ UNCHANGED <<ref, pending, wellFormed, has_data_model, streamResult,
                   valueResult, tokensLog, wire, streamed, stoppedEarly>>
    /\ UNCHANGED <<reqVars, tripVars, ifaceVars, callsVars>>

\* tokens_log(self, tokens), reached only when _as_turn built its contents.
Logged(r) == IF r.ok THEN Append(tokensLog, r.val.tokens) ELSE tokensLog

\* stream_turn on the accumulator, once the stream is exhausted.
StreamTurn ==
    /\ phase = "exhausted"
    /\ \E hdm \in BOOLEAN :
          LET r == stream_turn(completion, hdm) IN
          /\ has_data_model' = hdm
          /\ streamResult' = r
          /\ tokensLog' = Logged(r)
    /\ phase' = "finalized"
    /\ UNCHANGED <<completion, ref, pending, wellFormed, mergeErr, valueResult,
                   histVars>>
    /\ UNCHANGED <<reqVars, tripVars, ifaceVars, callsVars>>

\* value_turn on the completion of the non-streaming path.
ValueTurn ==
    /\ phase = "finalized"
    /\ LET r == value_turn(ref, has_data_model) IN
          /\ valueResult' = r
          /\ tokensLog' = Logged(r)
    /\ phase' = "done"
    /\ UNCHANGED <<completion, ref, pending, wellFormed, mergeErr,
                   has_data_model, streamResult, histVars>>
    /\ UNCHANGED <<reqVars, tripVars, ifaceVars, callsVars>>

NextStream ==
    \/ MessageStart
    \/ TextBlockStart
    \/ ToolUseBlockStart
    \/ TextDelta
    \/ InputJsonDelta
    \/ ContentBlockStop
    \/ MessageDelta
    \/ Ping
    \/ MessageStop
    \/ StreamTurn
    \/ ValueTurn

vars == <<streamVars, reqVars, tripVars, ifaceVars, callsVars>>

Init == InitStream

Next == NextStream

Spec == Init /\ [][Next]_vars

\* The events of one streaming call alone, the ones a vendor that keeps to
\* its protocol never sends included: closing fields sent again, and a
\* message_stop before the end.
NextEvents ==
    \/ MessageStart
    \/ TextBlockStart
    \/ ToolUseBlockStart
    \/ TextDelta
    \/ InputJsonDelta
    \/ ContentBlockStop
    \/ MessageDelta
    \/ MessageDeltaAgain
    \/ Ping
    \/ MessageStopEarly

SpecEvents == Init /\ [][NextEvents]_vars

(***************************************************************************)
(* Canonicalization alone: the completion is any finished vendor           *)
(* completion, handed to stream_turn and to value_turn.                    *)
(***************************************************************************)
ToolUseIds == {"toolu_1", "toolu_2"}

BlockTexts == {<<>>, <<"a">>, <<"a", "b">>}

ToolInputs == JsonValues \cup {PyInt(1), PyDict("data" :> PyNone)}

Blocks ==
    {TextBlock(t) : t \in BlockTexts}
    \cup {ToolUseBlock(id, name, input) :
             id \in ToolUseIds, name \in ToolNames, input \in ToolInputs}
    \cup {OtherBlock}

\* The sequences over S of length at most n.
RECURSIVE SeqsUpTo(_, _)
SeqsUpTo(S, n) ==
    IF n = 0 THEN {<<>>}
    ELSE LET shorter == SeqsUpTo(S, n - 1) IN
         shorter \cup {Append(q, x) : q \in shorter, x \in S}

Completions ==
    {Message(content, "end_turn", "none", 3, n) :
        content \in SeqsUpTo(Blocks, MaxBlocks), n \in OutputTokenCounts}

InitTurn ==
    /\ IdleHist
    /\ completion \in Completions
    /\ ref = completion
    /\ pending = <<>>
    /\ wellFormed = TRUE
    /\ phase = "exhausted"
    /\ mergeErr = "none"
    /\ has_data_model = FALSE
    /\ streamResult = NoResult
    /\ valueResult = NoResult
    /\ tokensLog = <<>>
    /\ IdleReq
    /\ IdleTrip
    /\ IdleRest

NextTurn == StreamTurn \/ ValueTurn

SpecTurn == InitTurn /\ [][NextTurn]_vars

(***************************************************************************)
(* Request construction: canonical content to vendor blocks, turns to      *)
(* vendor messages, tools to vendor tool schemas, and the request itself.  *)
(***************************************************************************)
\* ContentToolResult.get_final_value(): the error payload if there is one,
\* the success payload otherwise.
get_final_value(content) ==
    IF content.error # PyNone THEN content.error ELSE content.value

StructuredDataPlaceholder == <<"<structured data/>">>

\* An _as_content_block that fills a tool_use block's id with the tool's name.
as_content_block_name_as_id(content) ==
    IF content.kind = "ContentText"
    THEN Return([type |-> "text", text |-> content.text])
    ELSE IF content.kind = "ContentJson"
    THEN Return([type |-> "text", text |-> StructuredDataPlaceholder])
    ELSE IF content.kind = "ContentImageInline"
    THEN Return([type |-> "image",
                 source |-> [type |-> "base64",
                             media_type |-> content.content_type,
                             data |-> IF IsStr(content.data)
                                      THEN content.data[2] ELSE <<>>]])
    ELSE IF content.kind = "ContentImageRemote"
    THEN Raise("NotImplementedError")
    ELSE IF content.kind = "ContentToolRequest"
    THEN Return([type |-> "tool_use", id |-> content.name,
                 name |-> content.name, input |-> content.arguments])
    ELSE IF content.kind = "ContentToolResult"
    THEN Return([type |-> "tool_result", tool_use_id |-> content.id,
                 content |-> get_final_value(content),
                 is_error |-> content.error # PyNone])
    ELSE Raise("ValueError")

\* _as_content_block(content)
as_content_block(content) ==
    IF content.kind = "ContentText"
    THEN Return([type |-> "text", text |-> content.text])
    ELSE IF content.kind = "ContentJson"
    THEN Return([type |-> "text", text |-> StructuredDataPlaceholder])
    ELSE IF content.kind = "ContentImageInline"
    THEN Return([type |-> "image",
                 source |-> [type |-> "base64",
                             media_type |-> content.content_type,
                             data |-> IF IsStr(content.data)
                                      THEN content.data[2] ELSE <<>>]])
    ELSE IF content.kind = "ContentImageRemote"
    THEN Raise("NotImplementedError")
    ELSE IF content.kind = "ContentToolRequest"
    THEN Return([type |-> "tool_use", id |-> content.id, name |-> content.name,
                 input |-> content.arguments])
    ELSE IF content.kind = "ContentToolResult"
    THEN Return([type |-> "tool_result", tool_use_id |-> content.id,
                 content |-> get_final_value(content),
                 is_error |-> content.error # PyNone])
    ELSE Raise("ValueError")

\* [self._as_content_block(c) for c in turn.contents], from item i on.
RECURSIVE AsBlocks(_, _, _)
AsBlocks(contents, i, blocks) ==
    IF i > Len(contents) THEN Return(blocks)
    ELSE LET r == as_content_block(contents[i]) IN
         IF ~r.ok THEN r
         ELSE AsBlocks(contents, i + 1, Append(blocks, r.val))

\* A loop body that maps a system turn like any other turn.
AsMessageKeepSystem(turn) ==
    IF turn.role \notin {"system", "user", "assistant"} THEN Raise("ValueError")
    ELSE LET content == AsBlocks(turn.contents, 1, <<>>) IN
         IF ~content.ok THEN content
         ELSE Return(<<[role |-> IF turn.role = "user" THEN "user" ELSE "assistant",
                        content |-> content.val]>>)

\* A loop body that skips a turn of unknown role or with unmappable content.
AsMessageSkipBad(turn) ==
    IF turn.role \notin {"user", "assistant"} THEN Return(<<>>)
    ELSE LET content == AsBlocks(turn.contents, 1, <<>>) IN
         IF ~content.ok THEN Return(<<>>)
         ELSE Return(<<[role |-> turn.role, content |-> content.val]>>)

\* The body of _as_message_params' loop: the message appended for a turn,
\* none for a system turn, or the error raised.
AsMessage(turn) ==
    IF turn.role = "system" THEN Return(<<>>)
    ELSE IF turn.role \notin {"user", "assistant"} THEN Raise("ValueError")
    ELSE LET content == AsBlocks(turn.contents, 1, <<>>) IN
         IF ~content.ok THEN content
         ELSE Return(<<[role |-> IF turn.role = "user" THEN "user" ELSE "assistant",
                        content |-> content.val]>>)

\* _as_message_params(turns), from turn i on.
RECURSIVE AsMessages(_, _, _)
AsMessages(turns, i, messages) ==
    IF i > Len(turns) THEN Return(messages)
    ELSE LET r == AsMessage(turns[i]) IN
         IF ~r.ok THEN r
         ELSE AsMessages(turns, i + 1, messages \o r.val)

as_message_params(turns) == AsMessages(turns, 1, <<>>)

\* _anthropic_tool_schema(schema)
anthropic_tool_schema(schema) ==
    LET fn == schema.function
        res == [name |-> fn.name, input_schema |-> [type |-> "object"]]
        described == IF "description" \in DOMAIN fn
                     THEN ("description" :> fn.description) @@ res
                     ELSE res
    IN  IF "parameters" \in DOMAIN fn
        THEN [described EXCEPT !.input_schema =
                  ("properties" :> fn.parameters.properties) @@ @]
        ELSE described

\* [self._anthropic_tool_schema(tool.schema) for tool in tools.values()]
ToolSchemas(tools) == [i \in DOMAIN tools |-> anthropic_tool_schema(tools[i].schema)]

NoDataModel == [model |-> "None"]

\* The pseudo-tool made of _structured_tool_call, its parameters replaced by
\* the one property data.
DataModelTool(data_model) ==
    [name |-> StructuredToolName,
     schema |-> [type |-> "function",
                 function |-> [name |-> StructuredToolName,
                               description |-> "Extract structured data",
                               parameters |->
                                   [type |-> "object",
                                    properties |-> [data |-> data_model]]]]]

ForcedToolChoice(tool) == [type |-> "tool", name |-> tool.name]

\* The adapter's configuration, set once by __init__.
self_model == "claude-3-5-sonnet-latest"

self_max_tokens == 4096

\* kwargs or {}
NoKwargs == [given |-> FALSE, args |-> [k \in {} |-> TRUE]]

\* A request in which the derived fields win over the caller's.
KwargsFullDerivedWin(derived, kwargs) == derived @@ kwargs.args

\* The dict display of kwargs_full: the derived fields, then **(kwargs or {}).
KwargsFull(derived, kwargs) == kwargs.args @@ derived

\* _chat_perform_args: the request, or the error raised, and the number of
\* warnings emitted on the way.
chat_perform_args(stream, turns, tools, data_model, kwargs) ==
    LET wanted == data_model # NoDataModel
        data_model_tool == DataModelTool(data_model)
        tool_schemas ==
            IF wanted
            THEN Append(ToolSchemas(tools),
                        anthropic_tool_schema(data_model_tool.schema))
            ELSE ToolSchemas(tools)
        warnings == IF wanted /\ stream THEN 1 ELSE 0
        stream2 == IF wanted /\ stream THEN FALSE ELSE stream
        messages == as_message_params(turns)
    IN  IF ~messages.ok
        THEN [ok |-> FALSE, val |-> NoKwargs.args, err |-> messages.err,
              warnings |-> warnings]
        ELSE LET derived == [stream |-> stream2, messages |-> messages.val,
                             model |-> self_model,
                             max_tokens |-> self_max_tokens,
                             tools |-> tool_schemas]
                 merged == KwargsFull(derived, kwargs)
                 chosen == IF wanted
                           THEN ("tool_choice" :> ForcedToolChoice(data_model_tool))
                                @@ merged
                           ELSE merged
                 full == IF "system" \notin DOMAIN chosen
                            /\ Len(turns) > 0 /\ turns[1].role = "system"
                         THEN ("system" :> turns[1].text) @@ chosen
                         ELSE chosen
             IN  [ok |-> TRUE, val |-> full, err |-> "none",
                  warnings |-> warnings]

(***************************************************************************)
(* The callers' inputs.                                                    *)
(***************************************************************************)
MaxTurns == 2

MaxContents == 2

SystemText == <<"be terse">>

InputTurn(role, contents, text) ==
    [role |-> role, contents |-> contents, text |-> text]

RemoteImage == ContentImageRemote("https://example.com/cat.png")

Turns ==
    {InputTurn("system", <<ContentText(SystemText)>>, SystemText),
     InputTurn("user", <<ContentText(<<"hi">>)>>, <<"hi">>),
     InputTurn("assistant",
               <<ContentToolRequest("toolu_1", "get_weather", EmptyDict)>>, <<>>),
     InputTurn("user", <<ContentText(<<"look">>), RemoteImage>>, <<"look">>),
     InputTurn("tool",
               <<ContentToolResult("toolu_1", PyStr(<<"sunny">>), PyNone)>>, <<>>)}

WeatherTool ==
    [name |-> "get_weather",
     schema |-> [type |-> "function",
                 function |-> [name |-> "get_weather",
                               description |-> "Get the weather",
                               parameters |->
                                   [type |-> "object",
                                    properties |-> [city |-> "string"]]]]]

ClockTool ==
    [name |-> "now", schema |-> [type |-> "function", function |-> [name |-> "now"]]]

\* tools.values(), in the dict's order.
ToolDicts == {<<>>, <<WeatherTool, ClockTool>>}

DataModels == {NoDataModel, [model |-> "Person"]}

\* The values a caller may give for each key of the raw overrides.
OverrideValues ==
    [stream |-> {TRUE, FALSE},
     messages |-> {<<[role |-> "user", content |-> <<"raw">>]>>},
     model |-> {"claude-3-opus-latest"},
     tools |-> {<<[name |-> "raw_tool", input_schema |-> [type |-> "object"]]>>},
     system |-> {<<"raw system">>},
     tool_choice |-> {[type |-> "auto"]}]

\* The dicts over a set of keys.
RECURSIVE ArgsOver(_)
ArgsOver(keys) ==
    IF keys = {} THEN {NoKwargs.args}
    ELSE LET k == CHOOSE x \in keys : TRUE IN
         {(k :> v) @@ f : v \in OverrideValues[k], f \in ArgsOver(keys \ {k})}

Kwargs ==
    {NoKwargs} \cup
    {[given |-> TRUE, args |-> f] :
        f \in UNION {ArgsOver(keys) : keys \in SUBSET DOMAIN OverrideValues}}

InitReq ==
    /\ call \in [stream : BOOLEAN, turns : SeqsUpTo(Turns, MaxTurns),
                 tools : ToolDicts, data_model : DataModels, kwargs : Kwargs]
    /\ pcReq = "ready"
    /\ handed = <<>>
    /\ warned = 0
    /\ reqErr = "none"
    /\ IdleStream
    /\ IdleTrip
    /\ IdleRest

\* chat_perform: the request is built and handed to the blocking client.
ChatPerform ==
    /\ pcReq = "ready"
    /\ LET r == chat_perform_args(call.stream, call.turns, call.tools,
                                  call.data_model, call.kwargs)
       IN  /\ warned' = warned + r.warnings
           /\ IF r.ok
              THEN /\ handed' = Append(handed, [client |-> "_client", kwargs |-> r.val])
                   /\ pcReq' = "returned"
                   /\ reqErr' = reqErr
              ELSE /\ handed' = handed
                   /\ pcReq' = "raised"
                   /\ reqErr' = r.err
    /\ UNCHANGED <<call, streamVars, tripVars, ifaceVars, callsVars>>

\* chat_perform_async: the same request, handed to the non-blocking client.
ChatPerformAsync ==
    /\ pcReq = "ready"
    /\ LET r == chat_perform_args(call.stream, call.turns, call.tools,
                                  call.data_model, call.kwargs)
       IN  /\ warned' = warned + r.warnings
           /\ IF r.ok
              THEN /\ handed' = Append(handed, [client |-> "_async_client",
                                                kwargs |-> r.val])
                   /\ pcReq' = "returned"
                   /\ reqErr' = reqErr
              ELSE /\ handed' = handed
                   /\ pcReq' = "raised"
                   /\ reqErr' = r.err
    /\ UNCHANGED <<call, streamVars, tripVars, ifaceVars, callsVars>>

NextReq == ChatPerform \/ ChatPerformAsync

SpecReq == InitReq /\ [][NextReq]_vars

(***************************************************************************)
(* Content items on their way out and back: a list of items is mapped to   *)
(* vendor blocks, and a completion holding those blocks is canonicalized.  *)
(***************************************************************************)
Contents ==
    {ContentText(<<"a">>), ContentText(<<"a", "b">>),
     ContentJson(PyDict("x" :> PyInt(1))),
     ContentImageInline("image/png", PyStr(<<"iVBOR">>)),
     ContentImageInline("image/png", PyNone),
     RemoteImage,
     [kind |-> "ContentOther"]}
    \cup {ContentToolRequest(id, name, arguments) :
             id \in ToolUseIds, name \in ToolNames,
             arguments \in {EmptyDict, PyDict("x" :> PyInt(1))}}
    \cup {ContentToolResult(id, PyStr(<<"sunny">>), error) :
             id \in ToolUseIds, error \in {PyNone, PyStr(<<"boom">>)}}

InitContent ==
    /\ contentsIn \in SeqsUpTo(Contents, MaxContents)
    /\ blocksOut = [ok |-> FALSE, val |-> NoCompletion, err |-> "not called"]
    /\ IdleStream
    /\ IdleReq
    /\ IdleRest

\* The items are mapped as _as_message_params maps a turn's contents; the
\* vendor's completion holding the blocks is what comes back.
MapContents ==
    /\ phase = "idle"
    /\ blocksOut.err = "not called"
    /\ LET r == AsBlocks(contentsIn, 1, <<>>) IN
          /\ blocksOut' = r
          /\ IF r.ok
             THEN /\ completion' = Message(r.val, "end_turn", "none", 3, 5)
                  /\ ref' = completion'
                  /\ phase' = "exhausted"
             ELSE UNCHANGED <<completion, ref, phase>>
    /\ UNCHANGED <<contentsIn, pending, wellFormed, mergeErr, has_data_model,
                   streamResult, valueResult, tokensLog, histVars, reqVars,
                   ifaceVars, callsVars>>

NextContent == MapContents \/ StreamTurn

SpecContent == InitContent /\ [][NextContent]_vars

(***************************************************************************)
(* The Provider interface and the class AnthropicProvider.  A method is    *)
(* its signature: the parameters after self a call may pass by position,   *)
(* those it must pass by keyword, those that have a default, and whether   *)
(* the method is a coroutine function.  The vendor package is installed.   *)
(***************************************************************************)
Signature(positional, keyword_only, defaulted, is_async) ==
    [positional |-> positional, keyword_only |-> keyword_only,
     defaulted |-> defaulted, is_async |-> is_async]

ChatPerformParams == {"stream", "turns", "tools", "data_model", "kwargs"}

\* The methods class Provider declares, each an abstractmethod.
Provider ==
    [chat_perform |-> Signature(<<>>, ChatPerformParams, {}, FALSE),
     chat_perform_async |-> Signature(<<>>, ChatPerformParams, {}, TRUE),
     stream_text |-> Signature(<<"chunk">>, {}, {}, FALSE),
     stream_merge_chunks |->
         Signature(<<"completion", "chunk">>, {}, {}, FALSE),
     stream_turn |->
         Signature(<<"completion", "has_data_model", "stream">>, {}, {}, FALSE),
     stream_turn_async |->
         Signature(<<"completion", "has_data_model", "stream">>, {}, {}, TRUE),
     value_turn |->
         Signature(<<"completion", "has_data_model">>, {}, {}, FALSE)]

\* The methods of Provider's interface class AnthropicProvider defines.
AnthropicProvider ==
    [chat_perform |->
         Signature(<<>>, ChatPerformParams, {"data_model", "kwargs"}, FALSE),
     chat_perform_async |->
         Signature(<<>>, ChatPerformParams, {"data_model", "kwargs"}, TRUE),
     stream_text |-> Signature(<<"chunk">>, {}, {}, FALSE),
     stream_merge_chunks |->
         Signature(<<"completion", "chunk">>, {}, {}, FALSE),
     stream_turn |->
         Signature(<<"completion", "has_data_model">>, {}, {}, FALSE),
     value_turn |->
         Signature(<<"completion", "has_data_model">>, {}, {}, FALSE)]

\* __abstractmethods__ of AnthropicProvider: the abstract methods of its base
\* that its own namespace does not replace.
AbstractMethods == DOMAIN Provider \ DOMAIN AnthropicProvider

\* Python's binding of a call's arguments, n by position and kw by keyword,
\* to a signature: none too many, none unknown, none required left out.
Binds(sig, n, kw) ==
    LET left == {sig.positional[i] : i \in (n + 1)..Len(sig.positional)} IN
    /\ n <= Len(sig.positional)
    /\ kw \subseteq (left \cup sig.keyword_only)
    /\ (left \cup sig.keyword_only) \ sig.defaulted \subseteq kw

\* The client arguments of __init__: api_key, then **(kwargs or {}).
ClientArgs(api_key, kwargs) == kwargs.args @@ ("api_key" :> api_key)

\* __init__ on a fresh object.
init(args) ==
    [class |-> "AnthropicProvider",
     model |-> args.model,
     max_tokens |-> args.max_tokens,
     client |-> ClientArgs(args.api_key, args.kwargs),
     async_client |-> ClientArgs(args.api_key, args.kwargs)]

Models == {"claude-3-5-sonnet-latest", "claude-3-opus-latest", "claude-3-haiku"}

MaxTokensValues == {1, 1024, self_max_tokens}

ApiKeys == {"None", "sk-1"}

ClientKwargs ==
    {NoKwargs,
     [given |-> TRUE, args |-> NoKwargs.args],
     [given |-> TRUE, args |-> ("base_url" :> "https://proxy")],
     [given |-> TRUE, args |-> ("api_key" :> "sk-2")],
     [given |-> TRUE,
      args |-> ("api_key" :> "sk-2") @@ ("base_url" :> "https://proxy")]}

InitIface ==
    /\ ctorArgs \in [max_tokens : MaxTokensValues, model : Models,
                     api_key : ApiKeys, kwargs : ClientKwargs]
    /\ instance = NoInstance
    /\ ctorErr = "not called"
    /\ IdleStream
    /\ IdleReq
    /\ IdleTrip
    /\ IdleCalls

\* AnthropicProvider(max_tokens=..., model=..., api_key=..., kwargs=...):
\* object.__new__ refuses a class that has abstract methods left, and
\* __init__ runs on the object otherwise.
Construct ==
    /\ ctorErr = "not called"
    /\ ctorArgs # <<>>
    /\ IF AbstractMethods # {}
       THEN instance' = NoInstance /\ ctorErr' = "TypeError"
       ELSE instance' = init(ctorArgs) /\ ctorErr' = "none"
    /\ UNCHANGED <<ctorArgs, streamVars, reqVars, tripVars, callsVars>>

NextIface == Construct

SpecIface == InitIface /\ [][NextIface]_vars

(***************************************************************************)
(* Streaming calls that share one adapter.  Each call has the event        *)
(* sequence of its own response and its own accumulator, which its caller  *)
(* hands to stream_merge_chunks with every event; the calls' merge steps   *)
(* interleave in any order.                                                *)
(***************************************************************************)
MaxCalls == 2

Calls == 1..MaxCalls

StartEvent == MessageStartEvent(Message(<<>>, "none", "none", 3, 1))

\* A text block sent in two deltas with a ping between them.
TextStream ==
    <<StartEvent,
      ContentBlockStartEvent(0, TextBlock(<<>>)),
      TextDeltaEvent(0, <<"a">>),
      PingEvent,
      TextDeltaEvent(0, <<"b">>),
      ContentBlockStopEvent(0),
      MessageDeltaEvent("end_turn", "none", 5),
      MessageStopEvent>>

\* The events of a tool_use block at index whose input goes out as text, in
\* two pieces.
ToolUseEvents(index, name, text) ==
    <<ContentBlockStartEvent(index, ToolUseBlock(ToolUseId, name, EmptyDict)),
      InputJsonDeltaEvent(index, SubSeq(text, 1, 2)),
      InputJsonDeltaEvent(index, SubSeq(text, 3, Len(text))),
      ContentBlockStopEvent(index)>>

\* A tool call.
ToolStream ==
    <<StartEvent>>
    \o ToolUseEvents(0, "get_weather", Dumps(PyDict("x" :> PyInt(1))))
    \o <<MessageDeltaEvent("stop_sequence", "END", 7), MessageStopEvent>>

\* A text block, then the extraction call.
DataStream ==
    <<StartEvent,
      ContentBlockStartEvent(0, TextBlock(<<>>)),
      TextDeltaEvent(0, <<"b">>),
      ContentBlockStopEvent(0)>>
    \o ToolUseEvents(1, StructuredToolName,
                     Dumps(PyDict("data" :> PyDict("x" :> PyInt(1)))))
    \o <<MessageDeltaEvent("end_turn", "none", 7), MessageStopEvent>>

\* A tool call whose JSON text is cut short.
CutStream ==
    <<StartEvent>>
    \o ToolUseEvents(0, "get_weather",
                     WireText(PyDict("x" :> PyInt(1)), TRUE))
    \o <<MessageDeltaEvent("end_turn", "none", 5), MessageStopEvent>>

StreamingCalls ==
    {[events |-> TextStream, has_data_model |-> FALSE],
     [events |-> ToolStream, has_data_model |-> FALSE],
     [events |-> DataStream, has_data_model |-> TRUE],
     [events |-> CutStream, has_data_model |-> FALSE]}

\* The adapter the calls are made on.
SharedAdapter ==
    init([max_tokens |-> self_max_tokens, model |-> self_model,
          api_key |-> "sk-1", kwargs |-> NoKwargs])

InitCalls ==
    /\ \E f \in [Calls -> StreamingCalls] :
          /\ events = [c \in Calls |-> f[c].events]
          /\ wantsData = [c \in Calls |-> f[c].has_data_model]
    /\ pos = [c \in Calls |-> 0]
    /\ acc = [c \in Calls |-> NoCompletion]
    /\ callErr = [c \in Calls |-> "none"]
    /\ callTurn = [c \in Calls |-> NoResult]
    /\ adapter = SharedAdapter
    /\ IdleStream
    /\ IdleReq
    /\ IdleTrip
    /\ IdleIface

\* A stream_merge_chunks that keeps one accumulator for the adapter.
OwnedByAdapter(c) == 1

\* The accumulator a merge step of call c reads and writes: the completion
\* it is handed, which is call c's; nothing is kept on self.
OwnedBy(c) == c

\* Call c's loop merges its next event.
MergeStep(c) ==
    /\ pos[c] < Len(events[c])
    /\ callErr[c] = "none"
    /\ LET chunk == events[c][pos[c] + 1]
           r == stream_merge_chunks(acc[OwnedBy(c)], chunk)
       IN  /\ acc' = [acc EXCEPT ![OwnedBy(c)] = r.val]
           /\ callErr' = [callErr EXCEPT ![c] = IF r.ok THEN "none" ELSE r.err]
    /\ pos' = [pos EXCEPT ![c] = @ + 1]
    /\ UNCHANGED <<events, wantsData, callTurn, adapter>>
    /\ UNCHANGED <<streamVars, reqVars, tripVars, ifaceVars>>

\* Call c's stream is exhausted: stream_turn on its accumulator.
FinishCall(c) ==
    /\ pos[c] = Len(events[c])
    /\ callErr[c] = "none"
    /\ callTurn[c] = NoResult
    /\ callTurn' = [callTurn EXCEPT
                       ![c] = stream_turn(acc[OwnedBy(c)], wantsData[c])]
    /\ UNCHANGED <<events, wantsData, pos, acc, callErr, adapter>>
    /\ UNCHANGED <<streamVars, reqVars, tripVars, ifaceVars>>

NextCalls == \E c \in Calls : MergeStep(c) \/ FinishCall(c)

SpecCalls == InitCalls /\ [][NextCalls]_vars

(***************************************************************************)
(* Claims about the streaming merge and the canonicalization.              *)
(***************************************************************************)
\* The role, contents and token pair of an outcome, or its error.
Outcome(r) ==
    IF r.ok
    THEN <<"turn", r.val.role, r.val.contents, r.val.tokens>>
    ELSE <<"error", r.err>>

\* C1: when the vendor's events arrive in order and every tool input is sent
\* whole, no merge step fails, and the Turn stream_turn makes of the folded
\* accumulator has the role, the contents and the token pair of the Turn
\* value_turn makes of the completion the vendor delivered.
C1_StreamEqualsValue ==
    /\ (phase = "failed") => ~wellFormed
    /\ (phase = "done" /\ wellFormed) => Outcome(streamResult) = Outcome(valueResult)

\* A stream of a text block of two deltas and an extraction call sent in
\* pieces has been finalized on both paths.
C1_Witness ==
    /\ phase = "done"
    /\ wellFormed
    /\ has_data_model
    /\ streamResult.ok
    /\ \E i, j \in DOMAIN streamResult.val.contents :
          /\ streamResult.val.contents[i] = ContentText(<<"a", "b">>)
          /\ streamResult.val.contents[j] = ContentJson(PyDict("x" :> PyInt(1)))

\* The blocks _as_turn has an image for.
KnownBlocks(blocks) ==
    SelectSeq(blocks, LAMBDA b : b.type \in {"text", "tool_use"})

\* A tool_use block that is the extraction pseudo-tool's call.
IsExtraction(b) == b.type = "tool_use" /\ b.name = StructuredToolName

\* An extraction call whose input is no mapping or lacks the key data.
BadExtraction(b) ==
    IsExtraction(b) /\ (b.input[1] # "dict" \/ "data" \notin DOMAIN b.input[2])

\* C8: with an output schema requested, a completion holding an extraction
\* call whose input is no mapping or has no key data makes no Turn and
\* raises; otherwise every extraction call becomes ContentJson of the value
\* under data.
C8_ExtractionUnwrapped ==
    (phase \in {"finalized", "done"} /\ has_data_model) =>
        LET blocks == KnownBlocks(completion.content) IN
        IF \E i \in DOMAIN blocks : BadExtraction(blocks[i])
        THEN /\ ~streamResult.ok
             /\ streamResult.val = NoTurn
             /\ streamResult.err = "ValueError"
             /\ tokensLog = <<>>
        ELSE /\ streamResult.ok
             /\ \A i \in DOMAIN blocks :
                   IsExtraction(blocks[i]) =>
                       streamResult.val.contents[i] =
                           [kind |-> "ContentJson",
                            value |-> blocks[i].input[2]["data"]]

\* An extraction call with input {"data": {"x": 1}} has been canonicalized.
C8_Witness ==
    /\ phase = "finalized"
    /\ has_data_model
    /\ streamResult.ok
    /\ \E i \in DOMAIN completion.content :
          /\ IsExtraction(completion.content[i])
          /\ completion.content[i].input = PyDict("data" :> PyDict("x" :> PyInt(1)))
    /\ \E i \in DOMAIN streamResult.val.contents :
          streamResult.val.contents[i] = ContentJson(PyDict("x" :> PyInt(1)))

\* The canonical image of a text or tool_use block.
ImageOf(b, hdm, c) ==
    IF b.type = "text" THEN c.kind = "ContentText" /\ c.text = b.text
    ELSE IF hdm /\ IsExtraction(b)
         THEN c.kind = "ContentJson" /\ c.value = b.input[2]["data"]
         ELSE /\ c.kind = "ContentToolRequest"
              /\ c.id = b.id
              /\ c.name = b.name
              /\ c.arguments = b.input

\* The Turn of outcome r is the canonical Turn of completion m.
CanonicalTurn(r, m, hdm) ==
    r.ok =>
        LET blocks == KnownBlocks(m.content) IN
        /\ r.val.role = "assistant"
        /\ Len(r.val.contents) = Len(blocks)
        /\ \A i \in DOMAIN blocks : ImageOf(blocks[i], hdm, r.val.contents[i])
        /\ r.val.tokens = <<m.usage.input_tokens, m.usage.output_tokens>>

\* The outcomes so far that are Turns, in the order they were made.
TurnsMade ==
    SelectSeq(<<streamResult, valueResult>>, LAMBDA r : r.ok)

\* C10: a Turn made of a completion has role assistant, one item per text or
\* tool_use block in the blocks' order, and the completion's (input, output)
\* token pair; the log of token pairs holds exactly one entry per Turn made.
C10_TurnOfCompletion ==
    /\ CanonicalTurn(streamResult, completion, has_data_model)
    /\ CanonicalTurn(valueResult, ref, has_data_model)
    /\ Len(tokensLog) = Len(TurnsMade)
    /\ \A i \in DOMAIN tokensLog : tokensLog[i] = TurnsMade[i].val.tokens

\* A completion of a text block followed by a tool call has become a Turn.
C10_Witness ==
    /\ phase = "finalized"
    /\ streamResult.ok
    /\ Len(completion.content) = 2
    /\ completion.content[1].type = "text"
    /\ completion.content[2].type = "tool_use"
    /\ streamResult.val.contents[2].kind = "ContentToolRequest"
    /\ tokensLog = <<streamResult.val.tokens>>

(***************************************************************************)
(* Claims about request construction.                                      *)
(***************************************************************************)
\* The request the call handed to the vendor client.
Request == handed[1].kwargs

\* The caller's raw overrides.
Overrides == call.kwargs.args

\* The call asked for an output schema.
SchemaWanted == call.data_model # NoDataModel

\* The call is over.
CallOver == pcReq \in {"returned", "raised"}

\* The turn list starts with a system turn.
LeadingSystem == Len(call.turns) > 0 /\ call.turns[1].role = "system"

\* C2: a call with an output schema and stream=true emits exactly one
\* warning, and every request it hands to the vendor client has its stream
\* flag false, whatever the caller's extra arguments are.
C2_SchemaNeverStreams ==
    (CallOver /\ SchemaWanted /\ call.stream) =>
        /\ warned = 1
        /\ \A i \in DOMAIN handed : handed[i].kwargs["stream"] = FALSE

\* C3: the request carries the caller's value for every key of the raw
\* overrides, except that with an output schema its tool_choice is the
\* forced choice of the extraction pseudo-tool.
C3_OverridesWin ==
    (pcReq = "returned") =>
        /\ \A k \in DOMAIN Overrides :
              IF k = "tool_choice" /\ SchemaWanted
              THEN Request[k] = [type |-> "tool", name |-> StructuredToolName]
              ELSE Request[k] = Overrides[k]
        /\ SchemaWanted =>
              Request["tool_choice"] = [type |-> "tool", name |-> StructuredToolName]

\* A request was built for a streaming call with an output schema, a leading
\* system turn and every key overridden by the caller.
C3_Witness ==
    /\ pcReq = "returned"
    /\ SchemaWanted
    /\ call.stream
    /\ LeadingSystem
    /\ DOMAIN Overrides = DOMAIN OverrideValues
    /\ Overrides["stream"] = TRUE
    /\ Request["stream"] = TRUE
    /\ Request["system"] = <<"raw system">>

\* C4: the request's system field is the caller's override if there is one,
\* else the text of a leading system turn, else absent; and no message of
\* the mapped list comes from a leading system turn.
C4_SystemPrompt ==
    (pcReq = "returned") =>
        /\ "system" \in DOMAIN Overrides => Request["system"] = Overrides["system"]
        /\ (LeadingSystem /\ "system" \notin DOMAIN Overrides) =>
              /\ "system" \in DOMAIN Request
              /\ Request["system"] = call.turns[1].text
        /\ (~LeadingSystem /\ "system" \notin DOMAIN Overrides) =>
              "system" \notin DOMAIN Request
        /\ (LeadingSystem /\ "messages" \notin DOMAIN Overrides) =>
              /\ Len(Request["messages"]) < Len(call.turns)
              /\ \A i \in DOMAIN Request["messages"] :
                    LET m == Request["messages"][i] IN
                    /\ m.role \in {"user", "assistant"}
                    /\ \A j \in DOMAIN m.content :
                          m.content[j].type = "text" =>
                              m.content[j].text # call.turns[1].text

\* The turns [system "be terse", user "hi"] were sent without overrides.
C4_Witness ==
    /\ pcReq = "returned"
    /\ ~call.kwargs.given
    /\ Len(call.turns) = 2
    /\ LeadingSystem
    /\ call.turns[2].role = "user"
    /\ Request["system"] = SystemText
    /\ Len(Request["messages"]) = 1
    /\ Request["messages"][1].role = "user"

\* C5: with an output schema the request's tool list is the registered
\* tools' schemas followed by the pseudo-tool's, and its tool_choice forces
\* the pseudo-tool, a member of that list; without one the list holds no
\* pseudo-tool and no tool_choice is derived.
C5_ForcedToolInList ==
    (pcReq = "returned") =>
        LET tools == Request["tools"] IN
        IF SchemaWanted
        THEN /\ Len(tools) = Len(call.tools) + 1
             /\ \A i \in DOMAIN call.tools : tools[i].name = call.tools[i].name
             /\ tools[Len(tools)].name = StructuredToolName
             /\ Request["tool_choice"] = [type |-> "tool", name |-> StructuredToolName]
             /\ \E i \in DOMAIN tools : tools[i].name = Request["tool_choice"].name
        ELSE /\ "tools" \notin DOMAIN Overrides =>
                   /\ Len(tools) = Len(call.tools)
                   /\ \A i \in DOMAIN tools : tools[i].name # StructuredToolName
             /\ "tool_choice" \in DOMAIN Request =>
                   "tool_choice" \in DOMAIN Overrides

\* A turn the adapter cannot send: an unrecognized role, or a remote image
\* in a turn that is not a system turn.
Unsendable(turn) ==
    \/ turn.role \notin {"system", "user", "assistant"}
    \/ /\ turn.role # "system"
       /\ \E j \in DOMAIN turn.contents :
             turn.contents[j].kind = "ContentImageRemote"

Remaining == IF LeadingSystem THEN Tail(call.turns) ELSE call.turns

\* C7: only a leading system turn is dropped: when a request is built,
\* every remaining turn has role user or assistant (any other role,
\* a later system turn included, makes the call raise) and is mapped to a
\* message of the same role.
C7_OnlyLeadingSystemDropped ==
    (pcReq = "returned") =>
        /\ \A i \in DOMAIN Remaining : Remaining[i].role \in {"user", "assistant"}
        /\ "messages" \notin DOMAIN Overrides =>
              /\ Len(Request["messages"]) = Len(Remaining)
              /\ \A i \in DOMAIN Remaining :
                    Request["messages"][i].role = Remaining[i].role

(***************************************************************************)
(* Claims about content items on their way out and back.                   *)
(***************************************************************************)
\* The kinds of item whose block _as_turn has an image for.
Returning == {"ContentText", "ContentJson", "ContentToolRequest"}

\* Where item i of contentsIn comes back in the Turn's contents.
BackIndex(i) == Cardinality({j \in 1..i : contentsIn[j].kind \in Returning})

\* C9: a ToolResult maps to a tool_result block carrying its identifier;
\* and, with no output schema, a Text item comes back from _as_turn with the
\* same text and a ToolRequest with the same identifier, name and arguments.
C9_IdentifiersSurvive ==
    /\ blocksOut.ok =>
          \A i \in DOMAIN contentsIn :
              contentsIn[i].kind = "ContentToolResult" =>
                  /\ blocksOut.val[i].type = "tool_result"
                  /\ blocksOut.val[i].tool_use_id = contentsIn[i].id
    /\ (blocksOut.ok /\ phase = "finalized" /\ ~has_data_model) =>
          /\ streamResult.ok
          /\ \A i \in DOMAIN contentsIn :
                contentsIn[i].kind \in {"ContentText", "ContentToolRequest"} =>
                    streamResult.val.contents[BackIndex(i)] = contentsIn[i]

\* A tool result and a tool request have gone out and the request has come
\* back.
C9_Witness ==
    /\ blocksOut.ok
    /\ phase = "finalized"
    /\ ~has_data_model
    /\ Len(contentsIn) = 2
    /\ contentsIn[1].kind = "ContentToolResult"
    /\ contentsIn[2] = ContentToolRequest("toolu_2", StructuredToolName,
                                          PyDict("x" :> PyInt(1)))
    /\ blocksOut.val[1].tool_use_id = contentsIn[1].id
    /\ streamResult.val.contents = <<contentsIn[2]>>

(***************************************************************************)
(* Claims about the single merge steps.                                    *)
(***************************************************************************)
\* The accumulator's block being streamed, or streamed last.
AccOpen == completion.content[Len(completion.content)]

\* The deltas sent for the open tool_use block, put end to end.
Sent == SubSeq(wire, 1, Len(wire) - Len(pending))

\* A tool_use block is open, or was the last to close.
ToolUseLast == Len(ref.content) > 0 /\ OpenBlock.type = "tool_use"

\* The state a content_block_stop for the open block leaves.
Stopped == phase = "open" /\ ToolUseLast /\ streamed

\* The accumulator with v as the input of its last block.
WithInput(v) ==
    [completion EXCEPT !.content[Len(completion.content)].input = v]

C13_Joined ==
    /\ (phase = "block" /\ ToolUseLast /\ streamed) =>
          AccOpen.input = PyStr(Sent)
    /\ (phase = "block" /\ ToolUseLast /\ ~streamed) =>
          ~IsStr(AccOpen.input)
    /\ (phase = "failed") =>
          (mergeErr = "ValueError" /\ wire # <<>> /\ ToolUseLast /\ streamed)

C13_Stop ==
    ContentBlockStop =>
        IF OpenBlock.type = "tool_use" /\ streamed
        THEN LET parsed == json_loads(wire) IN
             IF wire = <<>>
             THEN completion' = WithInput(EmptyDict) /\ phase' = "open"
             ELSE IF parsed.ok
             THEN /\ completion' = WithInput(parsed.val)
                  /\ phase' = "open"
                  /\ wire = Dumps(OpenBlock.input) =>
                         completion' = WithInput(OpenBlock.input)
             ELSE /\ phase' = "failed"
                  /\ mergeErr' = "ValueError"
        ELSE completion' = completion /\ phase' = "open"

\* C13: while a tool_use block that received a delta is open its input is
\* the string of the deltas sent so far put end to end; once it is stopped
\* the input is what that string parses to as JSON, the empty mapping for
\* the empty string, and a string that is not empty and is no JSON text makes
\* the stop raise ValueError; the stop of a text block, or of a tool_use
\* block whose input is no string, changes nothing.
C13_ToolInputAssembled ==
    []C13_Joined /\ [][C13_Stop]_vars

\* A tool input sent in pieces after a text block has been stopped and
\* parsed.
C13_Witness ==
    /\ Stopped
    /\ Len(completion.content) = 2
    /\ completion.content[1].type = "text"
    /\ wire = Dumps(PyDict("data" :> PyDict("x" :> PyInt(1))))
    /\ AccOpen.input = PyDict("data" :> PyDict("x" :> PyInt(1)))

C14_LastValuesHeld ==
    (phase \in {"delta", "redelta"}) =>
        /\ completion.stop_reason = lastDelta.delta.stop_reason
        /\ completion.stop_sequence = lastDelta.delta.stop_sequence
        /\ completion.usage.output_tokens = lastDelta.usage.output_tokens

C14_RestUntouched ==
    (MessageDelta \/ MessageDeltaAgain) =>
        /\ phase' # "failed"
        /\ completion'.content = completion.content
        /\ completion'.usage.input_tokens = completion.usage.input_tokens

\* C14: after a message_delta the accumulator's stop reason, stop sequence
\* and output token count are those of the latest message_delta merged, and
\* merging one leaves the content list and the input token count as they
\* were.
C14_MessageDeltaFrame ==
    []C14_LastValuesHeld /\ [][C14_RestUntouched]_vars

\* A second message_delta has replaced the closing fields of a first one,
\* two blocks being held.
C14_Witness ==
    /\ phase = "redelta"
    /\ Len(completion.content) = 2
    /\ completion.stop_reason = "stop_sequence"
    /\ completion.stop_sequence = "END"
    /\ completion.usage.output_tokens = 7
    /\ completion.usage.input_tokens = 3

\* The steps that merge an event stream_merge_chunks has no branch for.
Unbranched == Ping \/ MessageStopEarly

\* C15: an event of a type stream_merge_chunks has no branch for leaves the
\* accumulator as it was and fails nothing, and the accumulator is at every
\* point the one a fold of the other events alone arrives at: whatever came
\* after a ping or a message_stop was folded as if that event had not
\* arrived.
C15_NoEventIsTerminal ==
    /\ [](completion = shadow)
    /\ [][Unbranched => (completion' = completion /\ phase' # "failed")]_vars

\* A message_stop arrived before the end; a text block was streamed and
\* stopped and the closing fields merged all the same.
C15_Witness ==
    /\ stoppedEarly
    /\ phase = "delta"
    /\ pending = <<>>
    /\ Len(completion.content) = 1
    /\ completion.content[1] = TextBlock(<<"a", "b">>)
    /\ completion.stop_reason = "end_turn"

\* The text fields of the text blocks of a content list, in block order.
RECURSIVE TextOf(_)
TextOf(blocks) ==
    IF blocks = <<>> THEN <<>>
    ELSE (IF Head(blocks).type = "text" THEN Head(blocks).text ELSE <<>>)
         \o TextOf(Tail(blocks))

\* A step leaves a string as stream_text's latest result exactly when it
\* merges a text delta, and the string is the delta's text.
C16_TextEvents ==
    IF TextDelta
    THEN IsStr(lastText') /\ shown' = shown \o lastText'[2]
    ELSE lastText' = NoText /\ shown' = shown

\* C16: at every point of the stream the text stream_text has handed out,
\* in arrival order, is the text of the accumulator's text blocks, in block
\* order; stream_text hands out a string for a text delta and None for
\* every other event.
C16_ShownEqualsRecorded ==
    /\ [](phase # "idle" => shown = TextOf(completion.content))
    /\ [][C16_TextEvents]_vars

\* Two text blocks have been streamed and stopped; the text shown is theirs
\* in block order.
C16_Witness ==
    /\ phase = "open"
    /\ completion.content = <<TextBlock(<<"a">>), TextBlock(<<"b", "a">>)>>
    /\ shown = <<"a", "b", "a">>

\* C17: a merge step that fails leaves the accumulator as it was before the
\* step; after a content_block_stop that failed on the input's JSON the
\* block's input is still the raw string of the deltas, and the call holds
\* ValueError.
C17_FailedStepWritesNothing ==
    /\ [](phase = "failed" =>
             /\ mergeErr = "ValueError"
             /\ AccOpen.input = PyStr(wire))
    /\ [][phase' = "failed" => completion' = completion]_vars

\* The stop of a tool_use block whose JSON text was cut short has failed,
\* a text block and closing fields from the start event being held.
C17_Witness ==
    /\ phase = "failed"
    /\ Len(completion.content) = 2
    /\ completion.content[1] = TextBlock(<<"a">>)
    /\ IsStr(AccOpen.input)
    /\ AccOpen.input[2] # <<>>
    /\ completion.usage = [input_tokens |-> 3, output_tokens |-> 1]

(***************************************************************************)
(* Claims about the adapter as a Provider.                                 *)
(***************************************************************************)
\* A call of the method as Provider declares it: every parameter Provider
\* lists by position passed by position, every keyword-only one by keyword.
AsDeclared(name) ==
    /\ name \in DOMAIN AnthropicProvider
    /\ Binds(AnthropicProvider[name], Len(Provider[name].positional),
             Provider[name].keyword_only)
    /\ AnthropicProvider[name].is_async = Provider[name].is_async

\* C11: every method Provider declares is defined by AnthropicProvider and
\* takes the arguments Provider declares for it, and a constructor call
\* returns an adapter holding the model and the token budget it was given.
C11_AdapterSatisfiesInterface ==
    /\ \A name \in DOMAIN Provider : AsDeclared(name)
    /\ ctorErr \in {"not called", "none"}
    /\ ctorErr = "none" =>
          /\ instance.model = ctorArgs.model
          /\ instance.max_tokens = ctorArgs.max_tokens

(***************************************************************************)
(* Claims about calls that share an adapter.                               *)
(***************************************************************************)
\* The accumulator, and the error, of a call that merges the first n of evs
\* with no other call about.
RECURSIVE Alone(_, _)
Alone(evs, n) ==
    IF n = 0 THEN [val |-> NoCompletion, err |-> "none"]
    ELSE LET r == stream_merge_chunks(Alone(evs, n - 1).val, evs[n]) IN
         [val |-> r.val, err |-> IF r.ok THEN "none" ELSE r.err]

C12_AsAlone ==
    \A c \in DOMAIN pos :
        /\ acc[c] = Alone(events[c], pos[c]).val
        /\ callErr[c] = Alone(events[c], pos[c]).err
        /\ callTurn[c] # NoResult =>
              callTurn[c] = stream_turn(Alone(events[c], Len(events[c])).val,
                                        wantsData[c])

C12_OthersUntouched ==
    \A c \in DOMAIN pos :
        MergeStep(c) =>
            /\ \A d \in DOMAIN pos \ {c} :
                  /\ acc'[d] = acc[d]
                  /\ callErr'[d] = callErr[d]
                  /\ callTurn'[d] = callTurn[d]
            /\ adapter' = adapter

\* C12: however the merge steps of the calls interleave, each call's
\* accumulator, error and Turn are the ones it arrives at when it runs
\* alone on its own events, and a merge step of one call leaves the other
\* calls' accumulators and the adapter's configuration as they were.
C12_CallsDoNotInterfere ==
    []C12_AsAlone /\ [][C12_OthersUntouched]_vars

\* Two calls with different streams are both in mid-stream, each holding
\* its own block.
C12_Witness ==
    /\ events # <<>>
    /\ events[1] = TextStream
    /\ events[2] = DataStream
    /\ pos[1] = 5
    /\ pos[2] = 6
    /\ acc[1].content = <<TextBlock(<<"a", "b">>)>>
    /\ Len(acc[2].content) = 2
    /\ IsStr(acc[2].content[2].input)

====
